---------------------------- MODULE Spec2Model ----------------------------
(***************************************************************************)
(* Model of the e-mail classification service: the request handlers of    *)
(* api.py (current revision) and api_old.py (previous revision), the text *)
(* normalizers they call and the regex / tier-3 field recovery of the     *)
(* previous revision.                                                     *)
(*                                                                        *)
(* Text is a sequence of one-character strings.  A raw payload is a       *)
(* sequence of bytes: ASCII bytes are written as their character, and     *)
(* InvalidByte stands for a byte that is not part of any UTF-8 encoding.  *)
(***************************************************************************)
EXTENDS Integers, Sequences, FiniteSets, TLC

VARIABLES
    handler,      \* the handler that served the last request ("none" at start)
    raw,          \* the raw payload bytes of that request
    intent,       \* what the producer meant to send: [subject, body, hasBody]
    status,       \* HTTP status of the response (0 before any request)
    escaped,      \* TRUE when an exception left the handler uncaught
    output,       \* [present, text]: the model text returned to the caller
    modelCalls,   \* number of ainvoke calls made during the request
    modelArgs,    \* [subject, body, category] handed to the last ainvoke
    modelFailed,  \* TRUE when an ainvoke raised
    extracted,    \* [ok, subject, body, category]: the handler's field values
    tier3,        \* [ran, temp_body, body]: the aggressive body patch
    norm          \* [stage, x, once, twice]: the normalizer applied on its own

vars == <<handler, raw, intent, status, escaped, output, modelCalls,
          modelArgs, modelFailed, extracted, tier3, norm>>

---------------------------------------------------------------------------
(* Bounds *)

\* Largest number of fragments a producer concatenates into one body.
MaxParts == 2

\* Largest number of fragments in a body sent to /generate_response/.
MaxPartsGen == 1

---------------------------------------------------------------------------
(* Character classes and Python string primitives *)

Whitespace == {" ", "\n", "\r", "\t"}

Letters ==
    {"a", "b", "c", "d", "e", "f", "g", "h", "i", "j", "k", "l", "m", "n",
     "o", "p", "q", "r", "s", "t", "u", "v", "w", "x", "y", "z",
     "A", "B", "C", "D", "E", "F", "G", "H", "I", "J", "K", "L", "M", "N",
     "O", "P", "Q", "R", "S", "T", "U", "V", "W", "X", "Y", "Z"}

Digits == {"0", "1", "2", "3", "4", "5", "6", "7", "8", "9"}

\* A byte that no UTF-8 decoder accepts (0xFF).
InvalidByte == "0xFF"

Contains(s, c) == \E i \in 1..Len(s) : s[i] = c

\* s[i..] starts with pat (1-based i).
StartsWithAt(s, pat, i) ==
    /\ i >= 1
    /\ i + Len(pat) - 1 <= Len(s)
    /\ \A k \in 1..Len(pat) : s[i + k - 1] = pat[k]

\* `pat in s`
HasSubstring(s, pat) == \E i \in 1..(Len(s) + 1) : StartsWithAt(s, pat, i)

\* A local name bound to a value: `name = value`, then the code that reads it.
Let(value, Rest(_)) == Rest(value)

Min(S) == CHOOSE x \in S : \A y \in S : x <= y
Max(S) == 0 - Min({0 - x : x \in S})

\* str.find(pat, from): the least position >= from where pat starts, 0 when
\* there is none (Python's -1).
Find(s, pat, from) ==
    LET hits == {i \in from..(Len(s) + 1) : StartsWithAt(s, pat, i)}
    IN  IF hits = {} THEN 0
        ELSE Min(hits)

\* str.rfind(pat): the greatest position where pat starts, 0 when none.
RFind(s, pat) ==
    LET hits == {i \in 1..(Len(s) + 1) : StartsWithAt(s, pat, i)}
    IN  IF hits = {} THEN 0
        ELSE Max(hits)

\* The concatenation of pieces[lo], ..., pieces[hi].
RECURSIVE ConcatRange(_, _, _)
ConcatRange(pieces, lo, hi) ==
    IF lo > hi THEN <<>>
    ELSE IF lo = hi THEN pieces[lo]
    ELSE LET mid == (lo + hi) \div 2
         IN  ConcatRange(pieces, lo, mid) \o ConcatRange(pieces, mid + 1, hi)

\* str.replace(old, new) for a pattern whose occurrences cannot overlap one
\* another (the patterns of the handlers are one character, or a backslash
\* followed by a quote): every occurrence is replaced.
Replace(s, old, new) ==
    LET starts(i) == StartsWithAt(s, old, i)
        inside(i) == \E j \in (i - Len(old) + 1)..(i - 1) : j >= 1 /\ starts(j)
        pieces == [i \in 1..Len(s) |->
                      IF inside(i) THEN <<>>
                      ELSE IF starts(i) THEN new
                      ELSE <<s[i]>>]
    IN  ConcatRange(pieces, 1, Len(s))

\* str.strip()
Strip(s) ==
    LET keep == {i \in 1..Len(s) : s[i] \notin Whitespace}
    IN  IF keep = {} THEN <<>> ELSE SubSeq(s, Min(keep), Max(keep))

\* re.sub(r'\s{2,}', ' ', s): every maximal run of two or more whitespace
\* characters becomes one space; a lone whitespace character is kept.
CollapseSpaces(s) ==
    LET ws(i) == i >= 1 /\ i <= Len(s) /\ s[i] \in Whitespace
        pieces == [i \in 1..Len(s) |->
                      IF ~ws(i) THEN <<s[i]>>
                      ELSE IF ws(i - 1) THEN <<>>
                      ELSE IF ws(i + 1) THEN <<" ">>
                      ELSE <<s[i]>>]
    IN  ConcatRange(pieces, 1, Len(s))

\* ' '.join(parts)
RECURSIVE JoinWithSpace(_)
JoinWithSpace(parts) ==
    IF parts = <<>> THEN <<>>
    ELSE IF Len(parts) = 1 THEN parts[1]
    ELSE parts[1] \o <<" ">> \o JoinWithSpace(Tail(parts))

\* The least position >= i that holds a character of chars; Len(s) + 1 when
\* there is none.
NextOf(s, chars, i) ==
    LET hits == {j \in i..Len(s) : s[j] \in chars}
    IN  IF hits = {} THEN Len(s) + 1 ELSE Min(hits)

\* The longest run of characters from position i on that are not in stop.
RunUntil(s, i, stop) == SubSeq(s, i, NextOf(s, stop, i) - 1)

\* The longest run of characters from position i on that are in allowed.
RunWhile(s, i, allowed) ==
    LET others == {j \in i..Len(s) : s[j] \notin allowed}
    IN  SubSeq(s, i, (IF others = {} THEN Len(s) + 1 ELSE Min(others)) - 1)

---------------------------------------------------------------------------
(* BeautifulSoup(text, 'html.parser'): the text nodes of the parse tree.   *)
(* A build is [unclosedTagIsText, scriptTextKept]: what the installed     *)
(* html.parser does with a tag that never closes, and whether the         *)
(* installed bs4 counts the text of script/style elements as text.        *)

Builds == [unclosedTagIsText : BOOLEAN, scriptTextKept : BOOLEAN]

ScriptName == <<"s", "c", "r", "i", "p", "t">>
StyleName == <<"s", "t", "y", "l", "e">>

\* The name of the tag whose "<" is at position i.
TagNameAt(s, i) ==
    IF i < Len(s) /\ s[i + 1] = "/" THEN <<>>
    ELSE RunUntil(s, i + 1, Whitespace \cup {"/", ">"})

\* The character an entity reference stands for, as bs4 substitutes it.
EntityText(name) ==
    IF name = <<"l", "t">> THEN <<"<">>
    ELSE IF name = <<"g", "t">> THEN <<">">>
    ELSE IF name = <<"a", "m", "p">> THEN <<"&">>
    ELSE <<"&">> \o name

\* The text nodes of s from position i on, cur being the text collected
\* since the last tag.  keepScript: the text inside script and style
\* elements stays in the tree.  The parser runs from one "<" or "&" to the
\* next; whatever lies between is text.
RECURSIVE TextNodes(_, _, _, _, _)
TextNodes(s, i, cur, unclosedTagIsText, keepScript) ==
    LET n == Len(s)
        j == NextOf(s, {"<", "&"}, i)
        text == cur \o SubSeq(s, i, j - 1)
        flush == IF text = <<>> THEN <<>> ELSE <<text>>
    IN
    IF j > n THEN flush
    ELSE IF s[j] = "<" /\ j < n /\ (s[j + 1] \in Letters \/ s[j + 1] = "/")
    THEN
        LET gt == Find(s, <<">">>, j + 1)
            name == TagNameAt(s, j)
        IN
        IF gt = 0
        THEN \* a tag that never closes
            IF unclosedTagIsText
            THEN LET lt == Find(s, <<"<">>, j + 1)
                     k == IF lt = 0 THEN j + 1 ELSE lt
                 IN  TextNodes(s, k, text \o SubSeq(s, j, k - 1),
                               unclosedTagIsText, keepScript)
            ELSE flush
        ELSE IF name \in {ScriptName, StyleName}
        THEN \* the element's content is raw text up to its end tag
            LET close == Find(s, <<"<", "/">> \o name, gt + 1)
                closeGt == IF close = 0 THEN 0 ELSE Find(s, <<">">>, close)
                content == IF close = 0 THEN <<>>
                           ELSE SubSeq(s, gt + 1, close - 1)
                inside == IF keepScript /\ content # <<>>
                          THEN <<content>> ELSE <<>>
            IN  IF close = 0 \/ closeGt = 0 THEN flush
                ELSE flush \o inside \o
                     TextNodes(s, closeGt + 1, <<>>,
                               unclosedTagIsText, keepScript)
        ELSE flush \o TextNodes(s, gt + 1, <<>>, unclosedTagIsText, keepScript)
    ELSE IF s[j] = "&" /\ j < n /\ s[j + 1] \in Letters
    THEN
        LET name == RunWhile(s, j + 1, Letters \cup Digits)
            after == j + 1 + Len(name)
        IN
        IF after > n
        THEN \* the name runs to the end of the input: kept as written
            <<text \o SubSeq(s, j, n)>>
        ELSE TextNodes(s, IF s[after] = ";" THEN after + 1 ELSE after,
                       text \o EntityText(name), unclosedTagIsText, keepScript)
    ELSE TextNodes(s, j + 1, Append(text, s[j]), unclosedTagIsText, keepScript)

\* The non-empty stripped strings of a node list.
RECURSIVE StrippedStrings(_)
StrippedStrings(nodes) ==
    IF nodes = <<>> THEN <<>>
    ELSE LET t == Strip(Head(nodes))
         IN  (IF t = <<>> THEN <<>> ELSE <<t>>) \o StrippedStrings(Tail(nodes))

\* soup.get_text(separator=' ', strip=True)
get_text(s, unclosedTagIsText, keepScript) ==
    JoinWithSpace(StrippedStrings(
        TextNodes(s, 1, <<>>, unclosedTagIsText, keepScript)))

---------------------------------------------------------------------------
(* The normalizers *)

\* api.py: `len(text_content) > 50`
MarkupThreshold == 50

\* api.py: the test that sends a text through BeautifulSoup.
LooksLikeMarkup(text_content) ==
    /\ Contains(text_content, "<")
    /\ Contains(text_content, ">")
    /\ Len(text_content) > MarkupThreshold

\* clean_text_content without the length test: every text with both
\* brackets goes through BeautifulSoup.
clean_text_content_no_threshold(text_content, unclosedTagIsText) ==
    IF text_content = <<>> THEN <<>>
    ELSE LET text == IF Contains(text_content, "<") /\ Contains(text_content, ">")
                     THEN get_text(text_content, unclosedTagIsText, FALSE)
                     ELSE text_content
         IN  Strip(CollapseSpaces(text))

\* clean_text_content without the loop that extracts script and style.
clean_text_content_keeps_script(text_content, unclosedTagIsText) ==
    IF text_content = <<>> THEN <<>>
    ELSE LET text == IF LooksLikeMarkup(text_content)
                     THEN get_text(text_content, unclosedTagIsText, TRUE)
                     ELSE text_content
         IN  Strip(CollapseSpaces(text))

\* api.py clean_text_content, for a str argument (the only kind the
\* handlers pass).  The script/style elements are extracted from the tree
\* before get_text, whatever the build.
clean_text_content(text_content, unclosedTagIsText) ==
    IF text_content = <<>> THEN <<>>
    ELSE LET text == IF LooksLikeMarkup(text_content)
                     THEN get_text(text_content, unclosedTagIsText, FALSE)
                     ELSE text_content
         IN  Strip(CollapseSpaces(text))

\* api_old.py clean_html_content: always parsed, nothing extracted.
clean_html_content(html_content, build) ==
    IF html_content = <<>> THEN <<>>
    ELSE get_text(html_content, build.unclosedTagIsText, build.scriptTextKept)

---------------------------------------------------------------------------
(* bytes.decode('utf-8') and json.loads *)

\* raw_body.decode('utf-8') raises UnicodeDecodeError on an invalid byte;
\* the ASCII bytes decode to themselves.
Utf8Decodes(bytes) == ~Contains(bytes, InvalidByte)

JsonWhitespace == {" ", "\n", "\r", "\t"}

\* Control characters a strict JSON string may not contain unescaped.
ControlChars == {"\n", "\r", "\t"}

SkipJsonWs(t, i) == i + Len(RunWhile(t, i, JsonWhitespace))

\* The character a backslash escape stands for; <<>> for an escape the
\* decoder rejects.
JsonEscape(c) ==
    IF c \in {"\"", "\\", "/"} THEN <<c>>
    ELSE IF c = "n" THEN <<"\n">>
    ELSE IF c = "r" THEN <<"\r">>
    ELSE IF c = "t" THEN <<"\t">>
    ELSE IF c = "b" THEN <<"0x08">>
    ELSE IF c = "f" THEN <<"0x0C">>
    ELSE <<>>

\* The number of consecutive backslashes right before position k, looking
\* no further back than position lo.
BackslashesBefore(t, k, lo) ==
    LET others == {j \in lo..(k - 1) : t[j] # "\\"}
    IN  IF others = {} THEN k - lo ELSE k - 1 - Max(others)

\* The JSON string whose opening quote is at position i: [ok, val, next].
\* It ends at the first quote that no backslash escapes; it may hold no
\* unescaped control character and no escape the decoder does not know.
JsonString(t, i) ==
    LET bad == [ok |-> FALSE, val |-> <<>>, next |-> i]
        lo == i + 1
        escapes(k) == t[k] = "\\" /\ BackslashesBefore(t, k, lo) % 2 = 0
    IN
    Let({e \in lo..Len(t) : t[e] = "\"" /\ BackslashesBefore(t, e, lo) % 2 = 0},
        LAMBDA closers :
      IF i > Len(t) \/ t[i] # "\"" \/ closers = {} THEN bad
      ELSE
      Let(Min(closers), LAMBDA e :
        \* kind[k]: 0 a plain character, 1 the backslash of an escape,
        \* 2 the character an escape names
        Let([k \in lo..(e - 1) |->
                IF k > lo /\ t[k - 1] = "\\" /\ escapes(k - 1) THEN 2
                ELSE IF escapes(k) THEN 1 ELSE 0],
            LAMBDA kind :
          IF \A k \in lo..(e - 1) :
                \/ kind[k] = 2
                \/ kind[k] = 1 /\ JsonEscape(t[k + 1]) # <<>>
                \/ kind[k] = 0 /\ t[k] \notin ControlChars
          THEN [ok |-> TRUE,
                val |-> ConcatRange([k \in lo..(e - 1) |->
                                        IF kind[k] = 2 THEN <<>>
                                        ELSE IF kind[k] = 1
                                        THEN JsonEscape(t[k + 1])
                                        ELSE <<t[k]>>],
                                    lo, e - 1),
                next |-> e + 1]
          ELSE bad)))

\* The members of an object from position i (just before a key) on:
\* [ok, members, next], members a sequence of <<key, value>> pairs.
RECURSIVE JsonMembers(_, _, _)
JsonMembers(t, i, acc) ==
    LET bad == [ok |-> FALSE, members |-> <<>>, next |-> i]
    IN
    Let(JsonString(t, SkipJsonWs(t, i)), LAMBDA key :
      IF ~key.ok THEN bad
      ELSE
      Let(SkipJsonWs(t, key.next), LAMBDA colon :
        IF colon > Len(t) \/ t[colon] # ":" THEN bad
        ELSE
        Let(JsonString(t, SkipJsonWs(t, colon + 1)), LAMBDA val :
          IF ~val.ok THEN bad
          ELSE
          Let(SkipJsonWs(t, val.next), LAMBDA sep :
            IF sep > Len(t) THEN bad
            ELSE IF t[sep] = "}"
            THEN [ok |-> TRUE,
                  members |-> Append(acc, <<key.val, val.val>>),
                  next |-> sep + 1]
            ELSE IF t[sep] = ","
            THEN JsonMembers(t, sep + 1, Append(acc, <<key.val, val.val>>))
            ELSE bad))))

\* json.loads on a text that is meant to be an object of string members:
\* [ok, members].  ok = FALSE is JSONDecodeError.
json_loads(t) ==
    LET bad == [ok |-> FALSE, members |-> <<>>]
    IN
    Let(SkipJsonWs(t, 1), LAMBDA open :
      IF open > Len(t) \/ t[open] # "{" THEN bad
      ELSE
      Let(SkipJsonWs(t, open + 1), LAMBDA first :
        Let(IF first <= Len(t) /\ t[first] = "}"
            THEN [ok |-> TRUE, members |-> <<>>, next |-> first + 1]
            ELSE JsonMembers(t, open + 1, <<>>),
            LAMBDA obj :
              IF obj.ok /\ SkipJsonWs(t, obj.next) > Len(t)
              THEN [ok |-> TRUE, members |-> obj.members]
              ELSE bad)))

HasKey(members, key) == \E k \in 1..Len(members) : members[k][1] = key

\* data[key]: the last member with that key wins.
ValueOf(members, key) ==
    LET ks == {k \in 1..Len(members) : members[k][1] = key}
    IN  members[CHOOSE k \in ks : \A j \in ks : k >= j][2]

SubjectName == <<"s", "u", "b", "j", "e", "c", "t">>
BodyName == <<"b", "o", "d", "y">>

\* EmailInput(**data) accepts the object: both required str fields are there.
EmailInputValid(members) ==
    HasKey(members, SubjectName) /\ HasKey(members, BodyName)

---------------------------------------------------------------------------
(* api_old.py: the regex scan and the tier-3 patch *)

\* re.search(r'"<key>":\s*"(.*?)(?<!\\)"', t [, re.DOTALL]), keyPattern
\* being the literal `"<key>":`.  [matched, group]: the leftmost match, its
\* group the shortest span that ends before a quote not preceded by a
\* backslash; without DOTALL the span holds no newline.
re_search_field(keyPattern, t, dotall) ==
    LET valueStart(p) ==
            p + Len(keyPattern)
              + Len(RunWhile(t, p + Len(keyPattern), Whitespace)) + 1
        ends(from) ==
            {e \in from..Len(t) :
                /\ t[e] = "\""
                /\ t[e - 1] # "\\"
                /\ dotall \/ \A k \in from..(e - 1) : t[k] # "\n"}
        opens(p) ==
            /\ StartsWithAt(t, keyPattern, p)
            /\ Let(valueStart(p), LAMBDA from :
                 /\ from - 1 <= Len(t)
                 /\ t[from - 1] = "\""
                 /\ ends(from) # {})
    IN
    Let({p \in 1..Len(t) : opens(p)}, LAMBDA starts :
      IF starts = {} THEN [matched |-> FALSE, group |-> <<>>]
      ELSE Let(valueStart(Min(starts)), LAMBDA from :
             [matched |-> TRUE,
              group |-> SubSeq(t, from, Min(ends(from)) - 1)]))

SubjectKey == <<"\"", "s", "u", "b", "j", "e", "c", "t", "\"", ":">>
BodyKey == <<"\"", "b", "o", "d", "y", "\"", ":">>
CategoryKey == <<"\"", "c", "a", "t", "e", "g", "o", "r", "y", "\"", ":">>

\* '"body": "'
BodyStartMarker == <<"\"", "b", "o", "d", "y", "\"", ":", " ", "\"">>
\* '"\n}'
BodyEndMarker == <<"\"", "\n", "}">>
\* 'dir="'
DirMarker == <<"d", "i", "r", "=", "\"">>

EscapedQuote == <<"\\", "\"">>
EscapedNewline == <<"\\", "n">>
EscapedReturn == <<"\\", "r">>

\* The replace chain applied to temp_body (api_old.py lines 108-110).
tier3_unescape(temp_body) ==
    LET a == Replace(temp_body, EscapedQuote, <<"\"">>)
        b == Replace(a, <<"\"">>, EscapedQuote)
        c == Replace(b, <<"\n">>, EscapedNewline)
        d == Replace(c, <<"\r">>, EscapedReturn)
    IN  Replace(d, EscapedQuote, <<"\"">>)

\* The aggressive body patch: [ran, temp_body, body].  Indices are Python's
\* (0-based, -1 for "not found").
tier3_recover(raw_body_str) ==
    Let((Find(raw_body_str, BodyStartMarker, 1) - 1) + Len(BodyStartMarker),
        LAMBDA body_start_index :
      Let(RFind(raw_body_str, BodyEndMarker) - 1, LAMBDA body_end_index :
        IF body_start_index # -1 /\ body_end_index # -1
           /\ body_end_index > body_start_index
        THEN Let(SubSeq(raw_body_str, body_start_index + 1, body_end_index),
                 LAMBDA temp_body :
               [ran |-> TRUE, temp_body |-> temp_body,
                body |-> tier3_unescape(temp_body)])
        ELSE [ran |-> FALSE, temp_body |-> <<>>, body |-> <<>>]))

NoTier3 == [ran |-> FALSE, temp_body |-> <<>>, body |-> <<>>]

\* The field values api_old.py works with: [subject, body, category, tier3].
extract_fields_old(raw_body_str) ==
    Let(re_search_field(BodyKey, raw_body_str, TRUE), LAMBDA body_match :
      Let(IF body_match.group = <<>> /\ HasSubstring(raw_body_str, DirMarker)
          THEN tier3_recover(raw_body_str)
          ELSE NoTier3,
          LAMBDA patch :
            [subject |-> re_search_field(SubjectKey, raw_body_str, FALSE).group,
             body |-> IF patch.ran THEN patch.body ELSE body_match.group,
             category |->
                 re_search_field(CategoryKey, raw_body_str, FALSE).group,
             tier3 |-> patch]))

---------------------------------------------------------------------------
(* The requests the upstream producer sends *)

RefundHtml ==
    <<"<", "p", ">", "I", " ", "w", "a", "n", "t", " ", "a", " ", "r", "e",
      "f", "u", "n", "d", " ", "f", "o", "r", " ", "o", "r", "d", "e", "r",
      " ", "1", "2", "3", "<", "/", "p", ">">>
RefundText ==
    <<"I", " ", "w", "a", "n", "t", " ", "a", " ", "r", "e", "f", "u", "n",
      "d", " ", "f", "o", "r", " ", "o", "r", "d", "e", "r", " ", "1", "2",
      "3">>
HiHtml ==
    <<"<", "p", ">", "H", "i", "<", "/", "p", ">">>
HiText == <<"H", "i">>
ScriptHtml ==
    <<"<", "s", "c", "r", "i", "p", "t", ">", "e", "v", "i", "l", "(", ")",
      "<", "/", "s", "c", "r", "i", "p", "t", ">">>
EvilText ==
    <<"e", "v", "i", "l", "(", ")">>
DivHtml ==
    <<"<", "d", "i", "v", " ", "d", "i", "r", "=", "\"", "l", "t", "r", "\"",
      ">", "H", "e", "l", "l", "o", "<", "/", "d", "i", "v", ">">>
DivHtmlEscaped ==
    <<"<", "d", "i", "v", " ", "d", "i", "r", "=", "\\", "\"", "l", "t", "r",
      "\\", "\"", ">", "H", "e", "l", "l", "o", "<", "/", "d", "i", "v", ">">>
EntityHtml ==
    <<"&", "l", "t", ";", "b", "&", "g", "t", ";", "T", "h", "a", "n", "k",
      "s", " ", "f", "o", "r", " ", "y", "o", "u", "r", " ", "h", "e", "l",
      "p", "&", "l", "t", ";", "/", "b", "&", "g", "t", ";">>
MixedRaw ==
    <<"<", "d", "i", "v", " ", "d", "i", "r", "=", "\"", "l", "t", "r", "\"",
      " ", "i", "d", "=", "\\", "\"", "x", "\\", "\"", ">", "a", "\\", "n",
      "b", "\n", "c", "<", "/", "d", "i", "v", ">">>
MixedText ==
    <<"<", "d", "i", "v", " ", "d", "i", "r", "=", "\"", "l", "t", "r", "\"",
      " ", "i", "d", "=", "\"", "x", "\"", ">", "a", "\n", "b", "\n", "c",
      "<", "/", "d", "i", "v", ">">>
SpacedText ==
    <<" ", " ", "o", "k", " ", " ">>
SubjectPlain ==
    <<"R", "e", "f", "u", "n", "d", " ", "r", "e", "q", "u", "e", "s", "t">>
SubjectEscapedRaw ==
    <<"R", "e", ":", " ", "\\", "\"", "H", "i", "\\", "\"">>
SubjectEscapedText ==
    <<"R", "e", ":", " ", "\"", "H", "i", "\"">>
CategoryBilling ==
    <<"B", "i", "l", "l", "i", "n", "g">>
ModelReply ==
    <<" ", "R", "e", "t", "u", "r", "n", "s", "\n">>

\* A fragment of a body: the bytes the producer writes for it (raw) and the
\* text the producer means by them (text).  clean: the bytes are the JSON
\* escaping of the text; otherwise the producer wrote quotes or newlines
\* without escaping them.
Parts ==
    {[raw |-> RefundHtml, text |-> RefundHtml, clean |-> TRUE],
     [raw |-> HiHtml, text |-> HiHtml, clean |-> TRUE],
     [raw |-> ScriptHtml, text |-> ScriptHtml, clean |-> TRUE],
     [raw |-> DivHtml, text |-> DivHtml, clean |-> FALSE],
     [raw |-> DivHtmlEscaped, text |-> DivHtml, clean |-> TRUE],
     [raw |-> EntityHtml, text |-> EntityHtml, clean |-> TRUE],
     [raw |-> MixedRaw, text |-> MixedText, clean |-> FALSE],
     [raw |-> <<"\"">>, text |-> <<"\"">>, clean |-> FALSE],
     [raw |-> SpacedText, text |-> SpacedText, clean |-> TRUE]}

PartSeqs(n) == UNION {[1..k -> Parts] : k \in 0..n}

RECURSIVE RawOf(_)
RawOf(ps) == IF ps = <<>> THEN <<>> ELSE Head(ps).raw \o RawOf(Tail(ps))

RECURSIVE TextOf(_)
TextOf(ps) == IF ps = <<>> THEN <<>> ELSE Head(ps).text \o TextOf(Tail(ps))

Subjects ==
    {[raw |-> SubjectPlain, text |-> SubjectPlain],
     [raw |-> SubjectEscapedRaw, text |-> SubjectEscapedText]}

\* How the producer closes the object: '\n}' (one field per line) or '}'.
LineTerminator == <<"\n", "}">>
BareTerminator == <<"}">>
Terminators == {LineTerminator, BareTerminator}

\* The bytes of one request body.
Envelope(subjectRaw, hasBody, bodyRaw, hasCategory, term) ==
    <<"{">> \o SubjectKey \o <<" ", "\"">> \o subjectRaw \o <<"\"">>
    \o (IF hasBody
        THEN <<",", " ">> \o BodyKey \o <<" ", "\"">> \o bodyRaw \o <<"\"">>
        ELSE <<>>)
    \o (IF hasCategory
        THEN <<",", " ">> \o CategoryKey \o <<" ", "\"">> \o CategoryBilling
             \o <<"\"">>
        ELSE <<>>)
    \o term

\* [bytes, intent]: a request and what its producer meant.
Request(s, hasBody, ps, hasCategory, term, corrupt) ==
    [bytes |-> Envelope(s.raw, hasBody,
                        (IF corrupt THEN <<InvalidByte>> ELSE <<>>) \o RawOf(ps),
                        hasCategory, term),
     intent |-> [subject |-> s.text, body |-> TextOf(ps), hasBody |-> hasBody,
                 clean |-> \A k \in 1..Len(ps) : ps[k].clean]]

\* The requests sent to an endpoint with bodies of at most n fragments:
\* whole ones closed by '\n}', short ones closed either way, ones without a
\* body field, and ones with a byte that is not UTF-8.
Requests(n, hasCategory) ==
    {Request(s, TRUE, ps, hasCategory, LineTerminator, FALSE) :
        s \in Subjects, ps \in PartSeqs(n)}
    \cup {Request(s, TRUE, ps, hasCategory, BareTerminator, FALSE) :
        s \in Subjects, ps \in PartSeqs(1)}
    \cup {Request(s, FALSE, <<>>, hasCategory, term, FALSE) :
        s \in Subjects, term \in Terminators}
    \cup {Request(s, TRUE, ps, hasCategory, term, TRUE) :
        s \in Subjects, ps \in PartSeqs(1), term \in Terminators}

\* What the model collaborator does with one call: a reply, or an exception.
ModelOutcomes == {[ok |-> TRUE, text |-> ModelReply], [ok |-> FALSE, text |-> <<>>]}

---------------------------------------------------------------------------
(* The handlers.  Each one is given as the outcome of a whole request:     *)
(* [status, escaped, output, modelCalls, modelArgs, modelFailed,          *)
(*  extracted, tier3].                                                    *)

NoArgs == [subject |-> <<>>, body |-> <<>>, category |-> <<>>]
NoOutput == [present |-> FALSE, text |-> <<>>]
NoFields == [ok |-> FALSE, subject |-> <<>>, body |-> <<>>, category |-> <<>>]

\* A request that ends in an error response before any model call.
Rejected(code, fields, leftHandler) ==
    [status |-> code, escaped |-> leftHandler, output |-> NoOutput,
     modelCalls |-> 0, modelArgs |-> NoArgs, modelFailed |-> FALSE,
     extracted |-> fields, tier3 |-> NoTier3]

\* ainvoke_and_return with one retry after a failed call.
ainvoke_and_return_retry(fields, args, m, patch) ==
    [status |-> IF m.ok THEN 200 ELSE 500,
     escaped |-> FALSE,
     output |-> IF m.ok THEN [present |-> TRUE, text |-> Strip(m.text)]
                ELSE NoOutput,
     modelCalls |-> IF m.ok THEN 1 ELSE 2,
     modelArgs |-> args,
     modelFailed |-> ~m.ok,
     extracted |-> fields,
     tier3 |-> patch]

\* `await chain.ainvoke(args)` followed by `return {...: text.strip()}`; an
\* exception of the call reaches the handler's `except Exception`, which
\* raises HTTPException(500).  m is what the model does with the call.
ainvoke_and_return(fields, args, m, patch) ==
    [status |-> IF m.ok THEN 200 ELSE 500,
     escaped |-> FALSE,
     output |-> IF m.ok THEN [present |-> TRUE, text |-> Strip(m.text)]
                ELSE NoOutput,
     modelCalls |-> 1,
     modelArgs |-> args,
     modelFailed |-> ~m.ok,
     extracted |-> fields,
     tier3 |-> patch]

\* api.py: the status that leaves classify_email_endpoint when the inner
\* handlers raise HTTPException(inner).  The raise happens inside the outer
\* try, and HTTPException is an Exception: the outer `except Exception`
\* catches it and raises HTTPException(500).
outer_except(inner) == 500

\* api.py classify_email_endpoint
classify_email_result(raw_body, m, unclosedTagIsText) ==
    IF ~Utf8Decodes(raw_body)
    THEN \* UnicodeDecodeError, caught by the outer except
         Rejected(500, NoFields, FALSE)
    ELSE
    Let(json_loads(raw_body), LAMBDA data :
      IF ~data.ok
      THEN Rejected(outer_except(400), NoFields, FALSE)
      ELSE IF ~EmailInputValid(data.members)
      THEN Rejected(outer_except(422), NoFields, FALSE)
      ELSE
      Let([ok |-> TRUE,
           subject |-> ValueOf(data.members, SubjectName),
           body |-> ValueOf(data.members, BodyName),
           category |-> <<>>],
          LAMBDA email_input :
            ainvoke_and_return(
                email_input,
                [subject |-> email_input.subject,
                 body |-> clean_text_content(email_input.body,
                                             unclosedTagIsText),
                 category |-> <<>>],
                m, NoTier3)))

\* api.py generate_response_endpoint, called by the framework with a
\* validated ResponseInput.
generate_response_result(response_data, m, unclosedTagIsText) ==
    LET cleaned_body == clean_text_content(response_data.body, unclosedTagIsText)
    IN  ainvoke_and_return(
            [ok |-> TRUE, subject |-> response_data.subject,
             body |-> response_data.body, category |-> response_data.category],
            [subject |-> response_data.subject, body |-> cleaned_body,
             category |-> response_data.category],
            m, NoTier3)

\* api_old.py: a request whose bytes do not decode.  UnicodeDecodeError is
\* caught by `except Exception`, whose f-string reads raw_body_str, which
\* was never bound: UnboundLocalError leaves the handler and the server
\* answers 500 itself.
undecodable_old == Rejected(500, NoFields, TRUE)

\* api_old.py classify_email_endpoint
classify_email_old_result(raw_body, m, build) ==
    IF ~Utf8Decodes(raw_body) THEN undecodable_old
    ELSE
    Let(extract_fields_old(raw_body), LAMBDA found :
      ainvoke_and_return(
          [ok |-> TRUE, subject |-> found.subject, body |-> found.body,
           category |-> <<>>],
          [subject |-> found.subject,
           body |-> clean_html_content(found.body, build),
           category |-> <<>>],
          m, found.tier3))

\* api_old.py generate_response_endpoint
generate_response_old_result(raw_body, m, build) ==
    IF ~Utf8Decodes(raw_body) THEN undecodable_old
    ELSE
    Let(extract_fields_old(raw_body), LAMBDA found :
      ainvoke_and_return(
          [ok |-> TRUE, subject |-> found.subject, body |-> found.body,
           category |-> found.category],
          [subject |-> found.subject,
           body |-> clean_html_content(found.body, build),
           category |-> found.category],
          m, found.tier3))

---------------------------------------------------------------------------
(* State machine *)

NoIntent == [subject |-> <<>>, body |-> <<>>, hasBody |-> FALSE, clean |-> TRUE]

IdleNorm == [stage |-> "idle", x |-> <<>>, once |-> <<>>, twice |-> <<>>,
             unclosedTagIsText |-> TRUE]

Init ==
    /\ handler = "none"
    /\ raw = <<>>
    /\ intent = NoIntent
    /\ status = 0
    /\ escaped = FALSE
    /\ output = NoOutput
    /\ modelCalls = 0
    /\ modelArgs = NoArgs
    /\ modelFailed = FALSE
    /\ extracted = NoFields
    /\ tier3 = NoTier3
    /\ norm = IdleNorm

Routes == {"classify_email", "generate_response", "classify_email_old",
           "generate_response_old", "read_root"}

\* What a client may send to a route.  /generate_response/ of api.py is
\* handed a ResponseInput the framework has already parsed and validated:
\* its handler never sees the bytes.
RequestsTo(route) ==
    IF route \in {"classify_email", "classify_email_old"}
    THEN Requests(MaxParts, FALSE)
    ELSE IF route = "generate_response_old"
    THEN Requests(MaxPartsGen, TRUE)
    ELSE IF route = "generate_response"
    THEN {[bytes |-> <<>>,
           intent |-> [subject |-> s.text, body |-> TextOf(ps),
                       hasBody |-> TRUE, clean |-> TRUE]] :
             s \in Subjects, ps \in PartSeqs(MaxPartsGen)}
    ELSE {[bytes |-> <<>>, intent |-> NoIntent]}

\* A request arrives at a route.  The handlers keep nothing from one request
\* to the next, so a behaviour is one request from the start state.
send_request ==
    /\ handler = "none"
    /\ \E route \in Routes :
          \E r \in RequestsTo(route) :
              /\ handler' = route
              /\ raw' = r.bytes
              /\ intent' = r.intent
    /\ UNCHANGED <<status, escaped, output, modelCalls, modelArgs,
                   modelFailed, extracted, tier3, norm>>

\* The response of a handler: what the request left behind.
Respond(res) ==
    /\ status' = res.status
    /\ escaped' = res.escaped
    /\ output' = res.output
    /\ modelCalls' = res.modelCalls
    /\ modelArgs' = res.modelArgs
    /\ modelFailed' = res.modelFailed
    /\ extracted' = res.extracted
    /\ tier3' = res.tier3
    /\ UNCHANGED <<handler, raw, intent, norm>>

\* POST /classify_email/ (api.py): the handler runs to its response.
classify_email_endpoint ==
    /\ handler = "classify_email"
    /\ status = 0
    /\ \E m \in ModelOutcomes, u \in BOOLEAN :
          Respond(classify_email_result(raw, m, u))

\* POST /generate_response/ (api.py)
generate_response_endpoint ==
    /\ handler = "generate_response"
    /\ status = 0
    /\ \E m \in ModelOutcomes, u \in BOOLEAN :
          Respond(generate_response_result(
                      [subject |-> intent.subject, body |-> intent.body,
                       category |-> CategoryBilling], m, u))

\* POST /classify_email/ (api_old.py)
classify_email_endpoint_old ==
    /\ handler = "classify_email_old"
    /\ status = 0
    /\ \E m \in ModelOutcomes, b \in Builds :
          Respond(classify_email_old_result(raw, m, b))

\* POST /generate_response/ (api_old.py)
generate_response_endpoint_old ==
    /\ handler = "generate_response_old"
    /\ status = 0
    /\ \E m \in ModelOutcomes, b \in Builds :
          Respond(generate_response_old_result(raw, m, b))

\* GET /
read_root ==
    /\ handler = "read_root"
    /\ status = 0
    /\ Respond(Rejected(200, NoFields, FALSE))

Next ==
    \/ send_request
    \/ classify_email_endpoint
    \/ generate_response_endpoint
    \/ classify_email_endpoint_old
    \/ generate_response_endpoint_old
    \/ read_root

Spec == Init /\ [][Next]_vars

---------------------------------------------------------------------------
(* The normalizer of api.py on its own *)

NormInputs == {TextOf(ps) : ps \in PartSeqs(MaxParts)}

NormInit ==
    /\ handler = "none"
    /\ raw = <<>>
    /\ intent = NoIntent
    /\ status = 0
    /\ escaped = FALSE
    /\ output = NoOutput
    /\ modelCalls = 0
    /\ modelArgs = NoArgs
    /\ modelFailed = FALSE
    /\ extracted = NoFields
    /\ tier3 = NoTier3
    /\ \E x \in NormInputs, u \in BOOLEAN :
          norm = [stage |-> "input", x |-> x, once |-> <<>>, twice |-> <<>>,
                  unclosedTagIsText |-> u]

NormUnchanged ==
    UNCHANGED <<handler, raw, intent, status, escaped, output, modelCalls,
                modelArgs, modelFailed, extracted, tier3>>

\* clean_text_content(x)
Normalize ==
    /\ norm.stage = "input"
    /\ norm' = [norm EXCEPT !.stage = "once",
                            !.once = clean_text_content(norm.x,
                                         norm.unclosedTagIsText)]
    /\ NormUnchanged

\* clean_text_content(clean_text_content(x))
NormalizeAgain ==
    /\ norm.stage = "once"
    /\ norm' = [norm EXCEPT !.stage = "twice",
                            !.twice = clean_text_content(norm.once,
                                          norm.unclosedTagIsText)]
    /\ NormUnchanged

NormNext == Normalize \/ NormalizeAgain

NormSpec == NormInit /\ [][NormNext]_vars
---------------------------------------------------------------------------
(* Properties *)

Done == status # 0

ClassifyRoutes == {"classify_email", "classify_email_old"}

\* The payload decodes and parses as a JSON object.
ParsesAsJson == Utf8Decodes(raw) /\ json_loads(raw).ok

\* A text with all markup removed and whitespace collapsed, whatever its
\* length.
MarkupStripped(text, unclosedTagIsText) ==
    Strip(CollapseSpaces(get_text(text, unclosedTagIsText, FALSE)))

\* The two ways of un-escaping a span the service is specified to apply:
\* \" to a quote, \n to a newline, \r to a carriage return.
SpanUnescaped(span) ==
    Replace(Replace(Replace(span, EscapedQuote, <<"\"">>),
                    EscapedNewline, <<"\n">>),
            EscapedReturn, <<"\r">>)

\* C1: a /classify_email/ request whose payload decodes and parses but has
\* no body field ends with status 422 and without any call to the model.
C1_MissingBodyIs422 ==
    (/\ handler \in ClassifyRoutes
     /\ Done
     /\ ParsesAsJson
     /\ ~HasKey(json_loads(raw).members, BodyName))
    => (status = 422 /\ modelCalls = 0)

\* C2: a /classify_email/ request whose bytes are not UTF-8 ends with a 400
\* response made by the handler, no exception leaves the handler and the
\* model is not called.
C2_UndecodableIs400 ==
    (handler \in ClassifyRoutes /\ Done /\ ~Utf8Decodes(raw))
    => (status = 400 /\ ~escaped /\ modelCalls = 0)

\* C3: a /classify_email/ payload that decodes but is not valid JSON still
\* yields subject and body strings, and the request does not end in an error
\* response because of it (only a failed model call may fail the request).
C3_MalformedJsonStillExtracts ==
    (handler \in ClassifyRoutes /\ Done /\ Utf8Decodes(raw) /\ ~json_loads(raw).ok)
    => (extracted.ok /\ (status = 200 \/ modelFailed))

\* C4 as stated: whenever api.py's /classify_email/ reaches the model, the
\* classifier gets the extracted subject and the body with all markup
\* stripped and whitespace collapsed; for the body RefundHtml it gets
\* RefundText.
C4_ClassifierGetsStrippedBody ==
    (handler = "classify_email" /\ modelCalls = 1)
    => /\ modelArgs.subject = extracted.subject
       /\ \E u \in BOOLEAN : modelArgs.body = MarkupStripped(extracted.body, u)
       /\ extracted.body = RefundHtml => modelArgs.body = RefundText

\* C4 amended: whenever api.py's /classify_email/ reaches the model, the
\* classifier gets the extracted subject; it gets the body with markup
\* stripped and whitespace collapsed when the body has both "<" and ">" and
\* more than 50 characters, and otherwise the body with only its whitespace
\* runs collapsed and its ends trimmed, markup left in place; the 36
\* characters of RefundHtml reach the classifier unchanged.
C4_ClassifierGetsNormalizedBody ==
    (handler = "classify_email" /\ modelCalls = 1)
    => /\ modelArgs.subject = extracted.subject
       /\ LooksLikeMarkup(extracted.body)
          => \E u \in BOOLEAN :
                modelArgs.body = MarkupStripped(extracted.body, u)
       /\ ~LooksLikeMarkup(extracted.body)
          => modelArgs.body = Strip(CollapseSpaces(extracted.body))
       /\ extracted.body = RefundHtml => modelArgs.body = RefundHtml

\* C4 witness: the classifier was called for the body RefundHtml.
C4_Witness ==
    /\ handler = "classify_email"
    /\ modelCalls = 1
    /\ extracted.body = RefundHtml
    /\ modelArgs.body = RefundHtml
    /\ modelArgs.subject = SubjectPlain

\* C5 as stated: the normalizer's output holds none of the text inside a
\* script element of its input, and HiHtml followed by ScriptHtml
\* normalizes to "Hi".
C5_ScriptTextNeverSurvives ==
    norm.stage \in {"once", "twice"}
    => /\ HasSubstring(norm.x, ScriptHtml) => ~HasSubstring(norm.once, EvilText)
       /\ norm.x = HiHtml \o ScriptHtml => norm.once = HiText

\* C5 amended: when api.py's normalizer treats its input as markup (both
\* "<" and ">", more than 50 characters), its output holds none of the text
\* inside a script element of the input; a shorter input keeps the element,
\* and HiHtml followed by ScriptHtml (32 characters) is returned unchanged.
C5_ScriptTextRemovedFromMarkup ==
    norm.stage \in {"once", "twice"}
    => /\ (LooksLikeMarkup(norm.x) /\ HasSubstring(norm.x, ScriptHtml))
          => ~HasSubstring(norm.once, EvilText)
       /\ (~LooksLikeMarkup(norm.x) /\ HasSubstring(norm.x, ScriptHtml))
          => HasSubstring(norm.once, EvilText)
       /\ norm.x = HiHtml \o ScriptHtml => norm.once = HiHtml \o ScriptHtml

\* C5 witness: a long input with a script element was normalized to the
\* text outside the element.
C5_Witness ==
    /\ norm.stage = "once"
    /\ norm.x = RefundHtml \o ScriptHtml
    /\ norm.once = RefundText

\* C6: when the subject is well-formed and the body is an HTML fragment
\* whose unescaped quotes break strict JSON parsing, /classify_email/ still
\* recovers a non-empty body whose normalized text is the visible text of
\* the whole fragment the producer meant.
C6_BrokenQuotesBodyRecovered ==
    (/\ handler \in ClassifyRoutes
     /\ Done
     /\ Utf8Decodes(raw)
     /\ ~json_loads(raw).ok
     /\ intent.hasBody
     /\ HasSubstring(intent.body, DirMarker)
     /\ HasSubstring(raw, DirMarker))
    => /\ extracted.ok
       /\ extracted.body # <<>>
       /\ \E u \in BOOLEAN :
             MarkupStripped(extracted.body, u) = MarkupStripped(intent.body, u)

\* C7: for a well-formed JSON object with string fields subject and body,
\* the subject and body /classify_email/ works with are exactly the decoded
\* values of those fields.
C7_WellFormedFieldsExact ==
    (/\ handler \in ClassifyRoutes
     /\ Done
     /\ ParsesAsJson
     /\ EmailInputValid(json_loads(raw).members))
    => /\ extracted.ok
       /\ extracted.subject = ValueOf(json_loads(raw).members, SubjectName)
       /\ extracted.body = ValueOf(json_loads(raw).members, BodyName)

C9_NormalizeIdempotent ==
    norm.stage = "twice" => norm.twice = norm.once

\* C10: when the tier-3 patch runs, the recovered body is the span between
\* the body-start marker and the closing quote with \" turned into a quote,
\* \n into a newline and \r into a carriage return, real newlines kept.
C10_Tier3Unescapes ==
    tier3.ran => tier3.body = SpanUnescaped(tier3.temp_body)

=============================================================================
